---- MODULE Spec2Model ----
(***************************************************************************)
(* Model of the flexible-BFT core: the HotStuff-like Replica of            *)
(* src/core/node.py running over the SimulatedNetwork of                   *)
(* src/core/network.py.                                                    *)
(*                                                                         *)
(* Every replica has one message-processing task (process_messages), so    *)
(* its handlers never interleave with each other; a handler is one action. *)
(* The network delays every delivery by a random time and may drop it, and *)
(* the inbox is FIFO: together they let a replica handle the messages sent *)
(* to it in any order, or never.  `net` holds the deliveries that were not *)
(* dropped and are not yet handled; a run of the model has at most         *)
(* budget.deliveries of them, at most budget.inflight at a time, the other *)
(* sends being dropped ones.                                               *)
(*                                                                         *)
(* Block ids are SHA-256 hashes over a content that holds a timestamp and  *)
(* a payload with a timestamp: every created block has a fresh id, the     *)
(* index of the block in `chain`.  A signature is modelled by what it      *)
(* signs: the signer's key, the block id and the view.                     *)
(***************************************************************************)
EXTENDS Integers, Sequences, FiniteSets, Bags, TLC

VARIABLES
    cfg,              \* the configuration: n, f, qc_threshold, drop_rate > 0
    budget,           \* what is left of the model's bounds
    delivered,        \* the number of deliveries that were not dropped
    chain,            \* every Block created so far; a block's id is its index
    net,              \* messages sent and not yet handled
    blocks,           \* blocks[r]: ids of self.blocks, in insertion order
    high_qc,          \* high_qc[r]
    locked_qc,        \* locked_qc[r]
    votes_collected,  \* votes_collected[r]: block_id -> list of Vote
    voted_in_view,    \* voted_in_view[r]: view -> block_id
    committed,        \* committed[r]: list of block ids
    current_view,     \* current_view[r]
    newview_buffer,   \* _newview_buffer[r]: view -> list of QC
    timer,            \* _timeout_task[r]: the view of the pending timer
    events,           \* events[r]: bag of the events r emitted
    learner,          \* learner[l]: committed and emitted events of Learner l
    orch,             \* the orchestrator: sim_running, sim_tasks, the hub
    wire              \* a SimulatedNetwork: nodes, send tasks, sink calls

vars == <<cfg, budget, delivered, chain, net, blocks, high_qc, locked_qc, votes_collected,
          voted_in_view, committed, current_view, newview_buffer, timer, events,
          learner, orch, wire>>

(***************************************************************************)
(* Bounds of the model and the configurations it runs.                     *)
(***************************************************************************)
MaxBlocks == 3
MaxTimeouts == 2
MaxDeliveries == 4
ForkBlocks == 6
ForkTimeouts == 1
ForkDeliveries == 7
ForkInFlight == 1
QuorumBlocks == 1
QuorumDeliveries == 8
MaxInject == 1
AdvDeliveries == 3
MaxClients == 2
MaxCalls == 2
OrchBlocks == 1
OrchTimeouts == 1
OrchDeliveries == 4
NoDropBlocks == 3
NoDropDeliveries == 12
LearnBlocks == 1
LearnDeliveries == 14
FullBlocks == 3
FullDeliveries == 15
AgreeBlocks == 1
AgreeDeliveries == 14
LockBlocks == 4
LockTimeouts == 2
LockDeliveries == 5
LockInFlight == 1
TimerBlocks == 1
TimerTimeouts == 4
TimerDeliveries == 4
NewViewBlocks == 1
NewViewTimeouts == 1
NewViewInject == 2
NewViewDeliveries == 3
MaxNewView == 1
MaxStarts == 1
StartBlocks == 1
StartTimeouts == 1
StartDeliveries == 4
\* the standalone replicas: proposals of the leader of view 0, deliveries
NodeBlocks == 2
NodeDeliveries == 8

\* The configurations: n = 2, f = 0 (quorum 1) and n = 4, f = 1 (quorum 3)
N == 2
F == 0
QuorumN == 4
QuorumF == 1
\* qc_threshold above the number of replicas, and equal to it
OverThreshold == N + 1
FullN == 3
FullF == 0
FullThreshold == FullN

None == 0 - 1
NoTimer == 0 - 1
WalkLimit == 1000

\* a replica that takes 2f + 1 whatever qc_threshold it is given
QcThreshold_default(q, f) == 2 * f + 1

\* qc_threshold if qc_threshold is not None else (2 * f + 1)
QcThreshold(q, f) == IF q = None THEN 2 * f + 1 ELSE q

\* given: the qc_threshold of the configuration; qc_threshold: self.qc_threshold;
\* byzantine: the replicas constructed with is_byzantine = True; learners: the
\* "learners" list, each entry a record of name, q_fast and q_commit
Config(n, f, q, lossy) ==
    [n |-> n, f |-> f, given |-> q, qc_threshold |-> QcThreshold(q, f),
     lossy |-> lossy, byzantine |-> {}, learners |-> <<>>]

Replicas == 0 .. (cfg.n - 1)

\* The learners of configuration c register after the replicas: the i-th
\* learner is endpoint c.n + i - 1
LearnersOf(c) == {c.n + i - 1 : i \in 1 .. Len(c.learners)}

Learners == LearnersOf(cfg)

LearnerCfg(l) == cfg.learners[l - cfg.n + 1]

\* self.nodes of the network the replicas and learners registered with
Endpoints == Replicas \cup Learners

\* leader_func = lambda view: all_ids[view % len(all_ids)]
leader_func(view) == view % cfg.n

(***************************************************************************)
(* Wire types (src/core/utils.py).                                         *)
(***************************************************************************)
NoQC == [block_id |-> 0, signer_ids |-> <<>>, signatures |-> <<>>, view |-> None]

NoSig == [by |-> None, block_id |-> 0, view |-> None]

\* ed25519_sign(sk, f"{block_id}:{view}")
ed25519_sign(signer, block_id, view) ==
    [by |-> signer, block_id |-> block_id, view |-> view]

\* ed25519_verify(vk, f"{block_id}:{view}", sig), vk the key of `voter`
ed25519_verify(voter, block_id, view, sig) ==
    sig = [by |-> voter, block_id |-> block_id, view |-> view]

\* self.pubkeys.get(voter): the registered replicas
HasPubkey(voter) == voter \in Replicas

Msg(type, from, view, bid, voter, sig, qc) ==
    [type |-> type, dst |-> None, from |-> from, view |-> view, bid |-> bid,
     voter |-> voter, sig |-> sig, qc |-> qc]

\* SimulatedNetwork.send: one delivery to dst, if dst is registered
Send(dst, m) == IF dst \in Endpoints THEN {[m EXCEPT !.dst = dst]} ELSE {}

\* SimulatedNetwork.broadcast: one send to every registered endpoint
Broadcast(m) == UNION {Send(d, m) : d \in Endpoints}

\* a network that may drop a delivery whatever its drop_rate
Deliveries_lossy(msgs) == SUBSET msgs

\* random.random() < drop_rate: with a positive drop_rate any of the
\* deliveries may be dropped, with drop_rate = 0 none is
Deliveries(msgs) == IF cfg.lossy THEN SUBSET msgs ELSE {msgs}

\* The network after `handled` was taken from an inbox and `msgs` were sent
NetStep(handled, msgs) ==
    \E S \in Deliveries(msgs) :
        /\ delivered + Cardinality(S) <= budget.deliveries
        /\ Cardinality((net \ handled) \cup S) <= budget.inflight
        /\ delivered' = delivered + Cardinality(S)
        /\ net' = (net \ handled) \cup S

(***************************************************************************)
(* Dictionaries.                                                           *)
(***************************************************************************)
Get(d, k, default) == IF k \in DOMAIN d THEN d[k] ELSE default

Put(d, k, v) == [x \in (DOMAIN d) \cup {k} |-> IF x = k THEN v ELSE d[x]]

EmptyDict == [x \in {} |-> 0]

SeqToSet(s) == {s[i] : i \in 1 .. Len(s)}

Emit(r, e) == [events EXCEPT ![r] = @ (+) SetToBag({e})]

Event(type, view, bid, count) ==
    [type |-> type, view |-> view, block_id |-> bid, count |-> count]

(***************************************************************************)
(* Chain helpers of the replica.                                           *)
(***************************************************************************)
BlockOf(id) == chain[id]

\* self.blocks.get(id): the id if the replica stores the block, else 0
Lookup(r, id) == IF id \in SeqToSet(blocks[r]) THEN id ELSE 0

\* self.blocks[block.id] = block  (an existing key keeps its position)
Insert(bs, id) == IF id \in SeqToSet(bs) THEN bs ELSE Append(bs, id)

\* _tip_block: the first inserted block among those of maximal height
_tip_block(r) ==
    IF blocks[r] = <<>> THEN 0
    ELSE LET ids == SeqToSet(blocks[r])
             max_h == CHOOSE h \in {BlockOf(i).height : i \in ids} :
                          \A i \in ids : BlockOf(i).height <= h
             first == CHOOSE k \in 1 .. Len(blocks[r]) :
                          /\ BlockOf(blocks[r][k]).height = max_h
                          /\ \A j \in 1 .. (k - 1) :
                                 BlockOf(blocks[r][j]).height # max_h
         IN  blocks[r][first]

\* The walk of _extends_locked from block record `b` with id `id`, through
\* the ids in `known`, looking for `target`.
RECURSIVE Walk(_, _, _, _, _)
Walk(known, id, b, target, steps) ==
    IF steps >= WalkLimit THEN FALSE
    ELSE IF id = target THEN TRUE
    ELSE IF b.parent_id = 0 THEN FALSE
    ELSE IF b.parent_id \notin known THEN FALSE
    ELSE Walk(known, b.parent_id, BlockOf(b.parent_id), target, steps + 1)

\* a voting rule that does not look at the lock
_extends_locked_unchecked(r, known, id, b) == TRUE

\* _extends_locked(block): block `b`, whose id is `id`, against the store
\* `known` of replica r
_extends_locked(r, known, id, b) ==
    IF locked_qc[r] = NoQC THEN TRUE
    ELSE Walk(known, id, b, locked_qc[r].block_id, 0)

\* make_block(parent, view, payload), proposer r
make_block(r, parent, view) ==
    [height |-> IF parent # 0 THEN BlockOf(parent).height + 1 ELSE 0,
     parent_id |-> parent,
     proposer |-> r,
     view |-> view,
     justify_qc_id |-> high_qc[r]]

(***************************************************************************)
(* Initial state: the replicas as constructed and started (start()         *)
(* schedules the timer of view 0).                                         *)
(***************************************************************************)
\* The asyncio tasks of a simulation
Task(kind, of) == [kind |-> kind, of |-> of]

\* sim_tasks after start_simulation: the tasks of r.start() and l.run() and
\* the duration timer.  The tasks r.start() creates (process_messages,
\* propose_loop, _timeout) are held by the replica alone.
StartedTasks(c) ==
    {Task("start", r) : r \in 0 .. (c.n - 1)}
        \cup {Task("learner", l) : l \in LearnersOf(c)}
        \cup {Task("duration", 0)}

Alive(task) == task \notin orch.cancelled

\* the event clients connected to the hub, in the order of hub.clients
Clients == [i \in 1 .. MaxClients |-> i]

InitWith(c, b) ==
    /\ cfg = c
    /\ budget = b
    /\ delivered = 0
    /\ chain = <<>>
    /\ net = {}
    /\ blocks = [r \in 0 .. (c.n - 1) |-> <<>>]
    /\ high_qc = [r \in 0 .. (c.n - 1) |-> NoQC]
    /\ locked_qc = [r \in 0 .. (c.n - 1) |-> NoQC]
    /\ votes_collected = [r \in 0 .. (c.n - 1) |-> EmptyDict]
    /\ voted_in_view = [r \in 0 .. (c.n - 1) |-> EmptyDict]
    /\ committed = [r \in 0 .. (c.n - 1) |-> <<>>]
    /\ current_view = [r \in 0 .. (c.n - 1) |-> 0]
    /\ newview_buffer = [r \in 0 .. (c.n - 1) |-> EmptyDict]
    /\ timer = [r \in 0 .. (c.n - 1) |-> 0]
    /\ events = [r \in 0 .. (c.n - 1) |-> EmptyBag]
    /\ learner = [l \in LearnersOf(c) |-> [committed |-> <<>>, events |-> EmptyBag]]
    /\ orch = [sim_running |-> TRUE,
               sim_tasks |-> StartedTasks(c),
               cancelled |-> {},
               expired |-> FALSE,
               clients |-> Clients,
               inbox |-> [w \in SeqToSet(Clients) |-> <<"starting", "running">>]]
    /\ wire = [nodes |-> (0 .. (c.n - 1)) \cup LearnersOf(c),
               calls |-> <<>>,
               tasks |-> {},
               sunk |-> EmptyBag]

Init ==
    InitWith(Config(N, F, None, TRUE),
             [blocks |-> MaxBlocks, timeouts |-> MaxTimeouts, inject |-> 0,
              deliveries |-> MaxDeliveries,
              inflight |-> MaxDeliveries])

\* The same configuration, with room for two chains of three blocks
InitFork ==
    InitWith(Config(N, F, None, TRUE),
             [blocks |-> ForkBlocks, timeouts |-> ForkTimeouts, inject |-> 0,
              deliveries |-> ForkDeliveries,
              inflight |-> ForkInFlight])

\* n = 4, f = 1: a quorum of three votes
InitQuorum ==
    InitWith(Config(QuorumN, QuorumF, None, TRUE),
             [blocks |-> QuorumBlocks, timeouts |-> 0, inject |-> 0,
              deliveries |-> QuorumDeliveries,
              inflight |-> QuorumDeliveries])

(***************************************************************************)
(* propose_loop: one tick of the leader of the current view.               *)
(***************************************************************************)
\* a leader that rebuilds on no block at all
LockedBlock_none(r) == 0

\* self.blocks.get(self.locked_qc.block_id), taken when the candidate does
\* not extend the lock (locked_qc is set then)
LockedBlock(r) == Lookup(r, locked_qc[r].block_id)

Propose(r) ==
    /\ leader_func(current_view[r]) = r
    /\ budget.blocks > 0
    /\ LET parent == _tip_block(r)
           id == Len(chain) + 1
           cand == make_block(r, parent, current_view[r])
           block == IF _extends_locked(r, SeqToSet(blocks[r]), id, cand) THEN cand
                    ELSE make_block(r, LockedBlock(r), current_view[r])
       IN  /\ chain' = Append(chain, block)
           /\ blocks' = [blocks EXCEPT ![r] = Insert(@, id)]
           /\ events' = Emit(r, Event("PROPOSED", current_view[r], id, 0))
           /\ NetStep({}, Broadcast(Msg("PROPOSE", r, current_view[r], id,
                                         None, NoSig, NoQC)))
    /\ budget' = [budget EXCEPT !.blocks = @ - 1]
    /\ UNCHANGED <<cfg, learner, orch, wire, high_qc, locked_qc, votes_collected, voted_in_view,
                   committed, current_view, newview_buffer, timer>>

(***************************************************************************)
(* _timeout: the pending view timer fires.                                 *)
(***************************************************************************)
TimerFire(r) ==
    /\ timer[r] # NoTimer
    /\ budget.timeouts > 0
    /\ timer' = [timer EXCEPT ![r] = NoTimer]
    /\ budget' = [budget EXCEPT !.timeouts = @ - 1]
    /\ IF current_view[r] = timer[r]
       THEN /\ NetStep({}, Broadcast(Msg("NEWVIEW", r, timer[r], 0, None,
                                         NoSig, high_qc[r])))
            /\ events' = Emit(r, Event("TIMEOUT", timer[r], 0, 0))
       ELSE UNCHANGED <<net, events, delivered>>
    /\ UNCHANGED <<cfg, learner, orch, wire, chain, blocks, high_qc, locked_qc, votes_collected,
                   voted_in_view, committed, current_view, newview_buffer>>

(***************************************************************************)
(* on_propose                                                              *)
(***************************************************************************)
\* on_propose without the one-vote-per-view test
AlreadyVoted_never(r, view) == FALSE

\* if self.voted_in_view.get(block.view): return
AlreadyVoted(r, view) == Get(voted_in_view[r], view, 0) # 0

on_propose(r, m) ==
    LET id == m.bid
        block == BlockOf(id)
        stored == Insert(blocks[r], id)
        vote == Msg("VOTE", r, block.view, id, r,
                    ed25519_sign(r, id, block.view), NoQC)
    IN  /\ blocks' = [blocks EXCEPT ![r] = stored]
        /\ IF AlreadyVoted(r, block.view)
           THEN UNCHANGED <<voted_in_view, events>> /\ NetStep({m}, {})
           ELSE IF ~_extends_locked(r, SeqToSet(stored), id, block)
           THEN UNCHANGED <<voted_in_view, events>> /\ NetStep({m}, {})
           ELSE /\ events' = Emit(r, Event("VOTE_SENT", block.view, id, 0))
                /\ NetStep({m}, Send(leader_func(block.view), vote))
                /\ voted_in_view' =
                       [voted_in_view EXCEPT ![r] = Put(@, block.view, id)]
        /\ UNCHANGED <<cfg, learner, orch, wire, budget, chain, high_qc, locked_qc, votes_collected,
                       committed, current_view, newview_buffer, timer>>

(***************************************************************************)
(* on_vote                                                                 *)
(***************************************************************************)
FormQC(block_id, lst, view) ==
    [block_id |-> block_id,
     signer_ids |-> [i \in 1 .. Len(lst) |-> lst[i].voter],
     signatures |-> [i \in 1 .. Len(lst) |-> lst[i].sig],
     view |-> view]

\* the lock the leader takes when it forms qc: a QC object over the parent
LockOnParent(r, qc) ==
    LET blk == Lookup(r, qc.block_id)
        parent == IF blk # 0 /\ BlockOf(blk).parent_id # 0
                  THEN Lookup(r, BlockOf(blk).parent_id) ELSE 0
    IN  IF parent # 0 THEN [qc EXCEPT !.block_id = parent] ELSE locked_qc[r]

on_vote(r, m) ==
    LET vote == [voter |-> m.voter, view |-> m.view, sig |-> m.sig]
        old == Get(votes_collected[r], m.bid, <<>>)
        lst == Append(old, vote)
        qc == FormQC(m.bid, lst, m.view)
    IN  /\ IF leader_func(m.view) # r
           THEN /\ NetStep({m}, {})
                /\ UNCHANGED <<votes_collected, events, high_qc, locked_qc,
                               current_view, timer>>
           ELSE IF ~HasPubkey(m.voter)
           THEN /\ NetStep({m}, {})
                /\ UNCHANGED <<votes_collected, events, high_qc, locked_qc,
                               current_view, timer>>
           ELSE IF ~ed25519_verify(m.voter, m.bid, m.view, m.sig)
           THEN /\ NetStep({m}, {})
                /\ events' = Emit(r, Event("ERROR", m.view, m.bid, m.voter))
                /\ UNCHANGED <<votes_collected, high_qc, locked_qc,
                               current_view, timer>>
           ELSE IF m.voter \in {old[i].voter : i \in 1 .. Len(old)}
           THEN /\ NetStep({m}, {})
                /\ UNCHANGED <<votes_collected, events, high_qc, locked_qc,
                               current_view, timer>>
           ELSE /\ votes_collected' =
                       [votes_collected EXCEPT ![r] = Put(@, m.bid, lst)]
                /\ IF Len(lst) >= cfg.qc_threshold
                   THEN /\ NetStep({m}, Broadcast(Msg("QC", r, None, 0, None,
                                                      NoSig, qc)))
                        /\ high_qc' = [high_qc EXCEPT ![r] = qc]
                        /\ locked_qc' =
                               [locked_qc EXCEPT ![r] = LockOnParent(r, qc)]
                        /\ events' =
                               [events EXCEPT ![r] = @ (+) SetToBag(
                                   {Event("VOTE_RCVD", m.view, m.bid, Len(lst))})
                                 (+) SetToBag(
                                   {Event("QC_FORMED", m.view, m.bid, Len(lst))})]
                        /\ current_view' =
                               [current_view EXCEPT ![r] = @ + 1]
                        /\ timer' = [timer EXCEPT ![r] = current_view[r] + 1]
                   ELSE /\ NetStep({m}, {})
                        /\ events' = Emit(r, Event("VOTE_RCVD", m.view, m.bid,
                                                   Len(lst)))
                        /\ UNCHANGED <<high_qc, locked_qc, current_view, timer>>
        /\ UNCHANGED <<cfg, learner, orch, wire, budget, chain, blocks, voted_in_view, committed,
                       newview_buffer>>

(***************************************************************************)
(* on_qc                                                                   *)
(***************************************************************************)
\* the number of (signer, signature) pairs of qc that verify
ValidCount(qc) ==
    LET k == IF Len(qc.signer_ids) < Len(qc.signatures)
             THEN Len(qc.signer_ids) ELSE Len(qc.signatures)
    IN  Cardinality({i \in 1 .. k :
            /\ HasPubkey(qc.signer_ids[i])
            /\ ed25519_verify(qc.signer_ids[i], qc.block_id, qc.view,
                              qc.signatures[i])})

QCAccepted(qc) == ValidCount(qc) >= cfg.qc_threshold

\* the grandparent taken from the parent's link, not from the store
Grandparent_unstored(r, qc) ==
    LET blk == Lookup(r, qc.block_id)
        parent == IF blk # 0 /\ BlockOf(blk).parent_id # 0
                  THEN Lookup(r, BlockOf(blk).parent_id) ELSE 0
    IN  IF parent # 0 THEN BlockOf(parent).parent_id ELSE 0

\* the grandparent on_qc commits for qc, 0 if none
Grandparent(r, qc) ==
    LET blk == Lookup(r, qc.block_id)
        parent == IF blk # 0 /\ BlockOf(blk).parent_id # 0
                  THEN Lookup(r, BlockOf(blk).parent_id) ELSE 0
    IN  IF parent # 0 /\ BlockOf(parent).parent_id # 0
        THEN Lookup(r, BlockOf(parent).parent_id) ELSE 0

\* on_qc appending the grandparent whether or not it is committed already
AlreadyCommitted_never(r, id) == FALSE

\* grandparent.id not in self.committed, negated
AlreadyCommitted(r, id) == id \in SeqToSet(committed[r])

on_qc(r, m) ==
    LET qc == m.qc
        grandparent == Grandparent(r, qc)
    IN  /\ NetStep({m}, {})
        /\ IF ~QCAccepted(qc)
           THEN UNCHANGED <<high_qc, committed, events>>
           ELSE /\ high_qc' = [high_qc EXCEPT ![r] = qc]
                /\ IF grandparent # 0 /\ ~AlreadyCommitted(r, grandparent)
                   THEN /\ committed' =
                               [committed EXCEPT ![r] = Append(@, grandparent)]
                        /\ events' = Emit(r, Event("COMMIT", None, grandparent,
                                              BlockOf(grandparent).height))
                   ELSE UNCHANGED <<committed, events>>
        /\ UNCHANGED <<cfg, learner, orch, wire, budget, chain, blocks, locked_qc, votes_collected,
                       voted_in_view, current_view, newview_buffer, timer>>

(***************************************************************************)
(* on_newview                                                              *)
(***************************************************************************)
\* a leader that takes the QC buffered last
MaxByView_last(buf) == buf[Len(buf)]

\* max(buf, key=lambda q: q.view): the first QC of maximal view
MaxByView(buf) ==
    LET k == CHOOSE i \in 1 .. Len(buf) :
                 /\ \A j \in 1 .. Len(buf) : buf[j].view <= buf[i].view
                 /\ \A j \in 1 .. (i - 1) : buf[j].view < buf[i].view
    IN  buf[k]

\* a leader that locks the best QC whether or not it stores its block
KnownLocally_always(r, id) == TRUE

\* parent_blk = self.blocks.get(best.block_id); if parent_blk
KnownLocally(r, id) == Lookup(r, id) # 0

\* on_newview setting current_view = v + 1 whatever the current view is
NewViewAdvances_always(r, v) == TRUE

\* if self.current_view <= v: the view moves to v + 1
NewViewAdvances(r, v) == current_view[r] <= v

on_newview(r, m) ==
    LET v == m.view
        buffered == IF m.qc # NoQC
                    THEN Put(newview_buffer[r], v,
                             Append(Get(newview_buffer[r], v, <<>>), m.qc))
                    ELSE newview_buffer[r]
        buf == Get(buffered, v, <<>>)
        best == MaxByView(buf)
    IN  /\ NetStep({m}, {})
        /\ newview_buffer' = [newview_buffer EXCEPT ![r] = buffered]
        /\ IF leader_func(v + 1) = r
           THEN /\ IF buf # <<>>
                   THEN /\ high_qc' = [high_qc EXCEPT ![r] = best]
                        /\ IF KnownLocally(r, best.block_id)
                           THEN locked_qc' = [locked_qc EXCEPT ![r] = best]
                           ELSE UNCHANGED locked_qc
                   ELSE UNCHANGED <<high_qc, locked_qc>>
                /\ IF NewViewAdvances(r, v)
                   THEN /\ current_view' = [current_view EXCEPT ![r] = v + 1]
                        /\ timer' = [timer EXCEPT ![r] = v + 1]
                   ELSE UNCHANGED <<current_view, timer>>
           ELSE UNCHANGED <<high_qc, locked_qc, current_view, timer>>
        /\ UNCHANGED <<cfg, learner, orch, wire, budget, chain, blocks, votes_collected,
                       voted_in_view, committed, events>>

(***************************************************************************)
(* process_messages / on_message: the replica takes one message and        *)
(* dispatches on its type.                                                 *)
(***************************************************************************)
\* the messages in the inbox of replica r whose process_messages task runs
Inbox(type) ==
    {m \in net : /\ m.type = type /\ m.dst \in Replicas
                 /\ Alive(Task("proc", m.dst))}

HandlePropose == \E m \in Inbox("PROPOSE") : on_propose(m.dst, m)

HandleVote == \E m \in Inbox("VOTE") : on_vote(m.dst, m)

HandleQC == \E m \in Inbox("QC") : on_qc(m.dst, m)

HandleNewView == \E m \in Inbox("NEWVIEW") : on_newview(m.dst, m)

ProposeTick == \E r \in Replicas : Alive(Task("prop", r)) /\ Propose(r)

ViewTimeout == \E r \in Replicas : Alive(Task("timeout", r)) /\ TimerFire(r)

(***************************************************************************)
(* Learner.run (src/core/learner.py): one message of the learner's inbox.  *)
(***************************************************************************)
\* a learner that records a block whether or not it is recorded already
NotRecorded_always(list, id) == TRUE

\* qc.block_id not in self.committed
NotRecorded(list, id) == id \notin SeqToSet(list)

LearnerEvent(type, l, qc) ==
    [type |-> type, learner |-> LearnerCfg(l).name, block_id |-> qc.block_id,
     sigs |-> Len(qc.signer_ids)]

\* the two tests of the loop body, one after the other
LearnerRun(l, m) ==
    LET qc == m.qc
        sigs == Len(qc.signer_ids)
        fast == sigs >= LearnerCfg(l).q_fast
                    /\ NotRecorded(learner[l].committed, qc.block_id)
        c1 == IF fast THEN Append(learner[l].committed, qc.block_id)
              ELSE learner[l].committed
        e1 == IF fast
              THEN learner[l].events (+) SetToBag({LearnerEvent("LEARNER_FAST", l, qc)})
              ELSE learner[l].events
        safe == sigs >= LearnerCfg(l).q_commit /\ NotRecorded(c1, qc.block_id)
        c2 == IF safe THEN Append(c1, qc.block_id) ELSE c1
        e2 == IF safe
              THEN e1 (+) SetToBag({LearnerEvent("LEARNER_SAFE", l, qc)})
              ELSE e1
    IN  /\ NetStep({m}, {})
        /\ IF m.type # "QC"
           THEN UNCHANGED learner
           ELSE learner' = [learner EXCEPT ![l] = [committed |-> c2, events |-> e2]]
        /\ UNCHANGED <<cfg, orch, wire, budget, chain, blocks, high_qc, locked_qc,
                       votes_collected, voted_in_view, committed, current_view,
                       newview_buffer, timer, events>>

LearnerStep ==
    \E m \in net :
        /\ m.dst \in Learners
        /\ Alive(Task("learner", m.dst))
        /\ LearnerRun(m.dst, m)

Next ==
    \/ ProposeTick
    \/ ViewTimeout
    \/ HandlePropose
    \/ HandleVote
    \/ HandleQC
    \/ HandleNewView

Spec == Init /\ [][Next]_vars

SpecFork == InitFork /\ [][Next]_vars

\* The same configuration, with room for a leader to lock a block and then
\* store a higher block of another chain
InitLock ==
    InitWith(Config(N, F, None, TRUE),
             [blocks |-> LockBlocks, timeouts |-> LockTimeouts, inject |-> 0,
              deliveries |-> LockDeliveries,
              inflight |-> LockInFlight])

SpecLock == InitLock /\ [][Next]_vars

(***************************************************************************)
(* Messages of arbitrary content.  network.send takes any message from any *)
(* caller; the handlers' contracts are stated for whatever a delivered     *)
(* message carries.  The sender holds the key of the last replica (the one *)
(* faulty replica that f = 1 allows) and no other key.                     *)
(***************************************************************************)
Faulty == cfg.n - 1

Repeat(x, k) == [i \in 1 .. k |-> x]

\* QCs on block b and view v built from the faulty replica's key alone
CraftedQCs(b, v) ==
    LET sig == ed25519_sign(Faulty, b, v)
        T == cfg.qc_threshold
        qc(ids, sigs) == [block_id |-> b, signer_ids |-> ids,
                          signatures |-> sigs, view |-> v]
    IN  {qc(Repeat(Faulty, T), Repeat(sig, T)),
         qc(Repeat(Faulty, T + 1), Append(Repeat(sig, T), NoSig)),
         qc(<<Faulty>>, <<sig>>),
         qc(<<Faulty>>, <<NoSig>>),
         qc([i \in 1 .. T |-> cfg.n + i], [i \in 1 .. T |->
                ed25519_sign(cfg.n + i, b, v)])}

CraftedMessages ==
    UNION {LET v == chain[b].view
           IN  {Msg("QC", Faulty, None, 0, None, NoSig, qc) :
                    qc \in CraftedQCs(b, v)}
               \cup {Msg("NEWVIEW", Faulty, v, 0, None, NoSig, qc) :
                    qc \in CraftedQCs(b, v)}
               \cup {Msg("VOTE", Faulty, v, b, voter, NoSig, NoQC) :
                    voter \in Replicas \cup {cfg.n + 1}}
           : b \in 1 .. Len(chain)}

Inject ==
    /\ budget.inject > 0
    /\ \E m \in CraftedMessages : \E dst \in Replicas :
           NetStep({}, Send(dst, m))
    /\ budget' = [budget EXCEPT !.inject = @ - 1]
    /\ UNCHANGED <<cfg, learner, orch, wire, chain, blocks, high_qc, locked_qc, votes_collected,
                   voted_in_view, committed, current_view, newview_buffer,
                   timer, events>>

InitAdv ==
    InitWith(Config(QuorumN, QuorumF, None, TRUE),
             [blocks |-> QuorumBlocks, timeouts |-> 0, inject |-> MaxInject,
              deliveries |-> AdvDeliveries,
              inflight |-> AdvDeliveries])

NextAdv ==
    \/ ProposeTick
    \/ HandlePropose
    \/ HandleVote
    \/ HandleQC
    \/ HandleNewView
    \/ Inject

SpecAdv == InitAdv /\ [][NextAdv]_vars

\* NEWVIEW messages of any view up to MaxNewView, carrying no QC or a QC of
\* any such view on a block of the chain; on_newview verifies no signature
NewViewQCs ==
    {NoQC} \cup
    {[block_id |-> b, signer_ids |-> <<Faulty>>,
      signatures |-> <<ed25519_sign(Faulty, b, qv)>>, view |-> qv] :
        b \in 1 .. Len(chain), qv \in 0 .. MaxNewView}

InjectNewView ==
    /\ budget.inject > 0
    /\ \E v \in 0 .. MaxNewView : \E qc \in NewViewQCs : \E dst \in Replicas :
           NetStep({}, Send(dst, Msg("NEWVIEW", Faulty, v, 0, None, NoSig, qc)))
    /\ budget' = [budget EXCEPT !.inject = @ - 1]
    /\ UNCHANGED <<cfg, learner, orch, wire, chain, blocks, high_qc, locked_qc,
                   votes_collected, voted_in_view, committed, current_view,
                   newview_buffer, timer, events>>

InitNewView ==
    InitWith(Config(N, F, None, TRUE),
             [blocks |-> NewViewBlocks, timeouts |-> NewViewTimeouts,
              inject |-> NewViewInject,
              deliveries |-> NewViewDeliveries,
              inflight |-> NewViewDeliveries])

NextNewView ==
    \/ ProposeTick
    \/ ViewTimeout
    \/ HandlePropose
    \/ HandleVote
    \/ HandleQC
    \/ HandleNewView
    \/ InjectNewView

SpecNewView == InitNewView /\ [][NextNewView]_vars

\* Runs in which no view timer fires
NextQuorum ==
    \/ ProposeTick
    \/ HandlePropose
    \/ HandleVote
    \/ HandleQC

SpecQuorum == InitQuorum /\ [][NextQuorum]_vars

\* drop_rate = 0: every send to a registered endpoint is delivered
InitNoDrop ==
    InitWith(Config(N, F, None, FALSE),
             [blocks |-> NoDropBlocks, timeouts |-> 0, inject |-> 0,
              deliveries |-> NoDropDeliveries,
              inflight |-> NoDropDeliveries])

SpecNoDrop == InitNoDrop /\ [][NextQuorum]_vars

\* "byzantine": [0]: the leader of view 0 is constructed with is_byzantine
InitByz ==
    InitWith([Config(N, F, None, FALSE) EXCEPT !.byzantine = {0}],
             [blocks |-> NoDropBlocks, timeouts |-> 0, inject |-> 0,
              deliveries |-> NoDropDeliveries,
              inflight |-> NoDropDeliveries])

SpecByz == InitByz /\ [][NextQuorum]_vars

(***************************************************************************)
(* SimulatedNetwork (src/core/network.py), call by call.  wire.nodes is    *)
(* self.nodes; wire.calls lists the calls of broadcast and send; a send    *)
(* that was not dropped is a task of wire.tasks while it sleeps, and a     *)
(* sink call of wire.sunk once it has delivered.                           *)
(***************************************************************************)
\* an endpoint id beyond the registered ones
WireIds == 0 .. (cfg.n + Len(cfg.learners))

\* the callers of the network in the replica: propose_loop and on_vote
\* broadcast from tasks nothing cancels; _timeout broadcasts from the timer
\* task, which _schedule_view_timeout cancels; on_propose sends
Callers == {"prop", "proc", "timeout"}

\* register(node_id, deliver_fn)
WireRegister(id) ==
    /\ id \notin wire.nodes
    /\ wire' = [wire EXCEPT !.nodes = @ \cup {id}]

\* send(src, dst, msg) up to the sleep: nothing for an unregistered dst or
\* a dropped message, else a sleeping task
WireSendTasks(k, dsts) ==
    {{[call |-> k, dst |-> d] : d \in kept} : kept \in Deliveries(dsts)}

\* broadcast(src, msg): one send task for every key of self.nodes
WireBroadcast(by, src) ==
    LET k == Len(wire.calls) + 1
        dsts == wire.nodes
    IN  /\ k <= MaxCalls
        /\ \E ts \in WireSendTasks(k, dsts) :
               wire' = [wire EXCEPT
                   !.calls = Append(@, [kind |-> "broadcast", by |-> by,
                                        src |-> src, to |-> dsts]),
                   !.tasks = @ \cup ts]

\* send(src, dst, msg) called directly
WireSend(by, src, dst) ==
    LET k == Len(wire.calls) + 1
        dsts == {dst} \cap wire.nodes
    IN  /\ k <= MaxCalls
        /\ \E ts \in WireSendTasks(k, dsts) :
               wire' = [wire EXCEPT
                   !.calls = Append(@, [kind |-> "send", by |-> by,
                                        src |-> src, to |-> {dst}]),
                   !.tasks = @ \cup ts]

\* the sleep of a send ends: await self.nodes[dst](msg)
WireDeliver(t) ==
    wire' = [wire EXCEPT !.tasks = @ \ {t},
                         !.sunk = @ (+) SetToBag({t})]

\* the task awaiting call k is cancelled: the gather it awaits cancels the
\* send tasks of the call that still sleep
WireCancel(k) ==
    /\ wire.calls[k].by = "timeout"
    /\ \E t \in wire.tasks : t.call = k
    /\ wire' = [wire EXCEPT !.tasks = {t \in @ : t.call # k}]

WireUnchanged ==
    UNCHANGED <<cfg, budget, delivered, chain, net, blocks, high_qc, locked_qc,
                votes_collected, voted_in_view, committed, current_view,
                newview_buffer, timer, events, learner, orch>>

WireRegisterStep == (\E id \in WireIds : WireRegister(id)) /\ WireUnchanged

WireBroadcastStep ==
    (\E by \in Callers \ {"proc"} : \E src \in Replicas : WireBroadcast(by, src))
        /\ WireUnchanged

WireSendStep ==
    (\E src \in Replicas : \E dst \in WireIds : WireSend("proc", src, dst))
        /\ WireUnchanged

WireDeliverStep == (\E t \in wire.tasks : WireDeliver(t)) /\ WireUnchanged

WireCancelStep ==
    (\E k \in 1 .. Len(wire.calls) : WireCancel(k)) /\ WireUnchanged

\* the network alone, with drop_rate zero or positive
InitWire ==
    \E lossy \in BOOLEAN :
        InitWith(Config(N, F, None, lossy),
                 [blocks |-> 0, timeouts |-> 0, inject |-> 0,
                  deliveries |-> 0, inflight |-> 0])

NextWire ==
    \/ WireRegisterStep
    \/ WireBroadcastStep
    \/ WireSendStep
    \/ WireDeliverStep
    \/ WireCancelStep

SpecWire == InitWire /\ [][NextWire]_vars

\* two learners: "fast" with q_fast below q_commit, as the default one, and
\* "safe" with a q_fast no QC reaches
LearnerList ==
    <<[name |-> "fast", q_fast |-> 1, q_commit |-> 2],
      [name |-> "safe", q_fast |-> N + 1, q_commit |-> 2]>>

(***************************************************************************)
(* The orchestrator (src/app.py): stop_simulation and the duration timer.  *)
(***************************************************************************)
\* Hub.broadcast(status) by a task whose cancellation is pending or not.
\* A cancellation is delivered at the first await that suspends: acquiring
\* hub.lock when it is held (busy), where it leaves the broadcast, or the
\* send_text of a client whose socket does not take the text at once
\* (susp), where the bare except takes it for a dead client; whether the
\* text went out before that (written) is the socket's business.
HubBroadcast(h, status, busy, susp, written) ==
    LET idx == {i \in 1 .. Len(h.clients) : h.clients[i] \in susp}
        victim == IF h.pending /\ idx # {}
                  THEN h.clients[CHOOSE i \in idx : \A j \in idx : i <= j]
                  ELSE 0
        keep(w) == w # victim
    IN  IF h.raised THEN h
        ELSE IF h.pending /\ busy
        THEN [h EXCEPT !.raised = TRUE, !.pending = FALSE]
        ELSE [clients |-> SelectSeq(h.clients, keep),
              inbox |-> [w \in DOMAIN h.inbox |->
                            IF w \in SeqToSet(h.clients) /\ (w # victim \/ written)
                            THEN Append(h.inbox[w], status)
                            ELSE h.inbox[w]],
              pending |-> h.pending /\ victim = 0,
              raised |-> FALSE]

\* stop_simulation up to its broadcast
Stopped(o) ==
    [o EXCEPT !.cancelled = @ \cup o.sim_tasks,
              !.sim_tasks = {},
              !.sim_running = FALSE]

OrchUnchanged ==
    UNCHANGED <<cfg, budget, delivered, chain, net, blocks, high_qc, locked_qc,
                votes_collected, voted_in_view, committed, current_view,
                newview_buffer, timer, events, learner, wire>>

\* stop_simulation, awaited by the handler of a client's STOP
StopSimulation ==
    /\ orch.sim_running
    /\ LET h == HubBroadcast([clients |-> orch.clients, inbox |-> orch.inbox,
                              pending |-> FALSE, raised |-> FALSE],
                             "stopped", FALSE, {}, TRUE)
       IN  orch' = [Stopped(orch) EXCEPT !.clients = h.clients,
                                         !.inbox = h.inbox]
    /\ OrchUnchanged

\* _timer after its sleep: stop_simulation cancels every task of sim_tasks,
\* the timer's own task among them, then broadcasts; then the broadcast of
\* "finished"
DurationExpires ==
    /\ Task("duration", 0) \in orch.sim_tasks
    /\ Alive(Task("duration", 0))
    /\ ~orch.expired
    /\ \E busy1 \in BOOLEAN : \E busy2 \in BOOLEAN :
       \E susp1 \in SUBSET SeqToSet(orch.clients) :
       \E susp2 \in SUBSET SeqToSet(orch.clients) :
       \E written \in BOOLEAN :
           LET self == Task("duration", 0)
               h0 == [clients |-> orch.clients, inbox |-> orch.inbox,
                      pending |-> orch.sim_running /\ self \in orch.sim_tasks,
                      raised |-> FALSE]
               h1 == IF orch.sim_running
                     THEN HubBroadcast(h0, "stopped", busy1, susp1, written)
                     ELSE h0
               h2 == HubBroadcast(h1, "finished", busy2, susp2, written)
               o == IF orch.sim_running THEN Stopped(orch) ELSE orch
           IN  orch' = [o EXCEPT !.clients = h2.clients,
                                 !.inbox = h2.inbox,
                                 !.expired = TRUE]
    /\ OrchUnchanged

\* a simulation with a learner, its duration timer and the STOP of a client
InitOrch ==
    InitWith([Config(N, F, None, TRUE) EXCEPT !.learners = <<LearnerList[1]>>],
             [blocks |-> OrchBlocks, timeouts |-> OrchTimeouts, inject |-> 0,
              deliveries |-> OrchDeliveries,
              inflight |-> OrchDeliveries])

NextOrch ==
    \/ ProposeTick
    \/ ViewTimeout
    \/ HandlePropose
    \/ HandleVote
    \/ HandleQC
    \/ HandleNewView
    \/ LearnerStep
    \/ StopSimulation
    \/ DurationExpires

SpecOrch == InitOrch /\ [][NextOrch]_vars

InitLearner ==
    InitWith([Config(N, F, None, FALSE) EXCEPT !.learners = LearnerList],
             [blocks |-> LearnBlocks, timeouts |-> 0, inject |-> 0,
              deliveries |-> LearnDeliveries,
              inflight |-> LearnDeliveries])

NextLearner ==
    \/ ProposeTick
    \/ HandlePropose
    \/ HandleVote
    \/ HandleQC
    \/ LearnerStep

SpecLearner == InitLearner /\ [][NextLearner]_vars

\* qc_threshold > n: no QC message is ever sent, so none is handled
InitOver ==
    InitWith(Config(N, F, OverThreshold, TRUE),
             [blocks |-> MaxBlocks, timeouts |-> MaxTimeouts, inject |-> 0,
              deliveries |-> MaxDeliveries,
              inflight |-> MaxDeliveries])

NextOver ==
    \/ ProposeTick
    \/ ViewTimeout
    \/ HandlePropose
    \/ HandleVote
    \/ HandleNewView

SpecOver == InitOver /\ [][NextOver]_vars

\* qc_threshold = n, drop_rate = 0
InitFull ==
    InitWith(Config(FullN, FullF, FullThreshold, FALSE),
             [blocks |-> FullBlocks, timeouts |-> 0, inject |-> 0,
              deliveries |-> FullDeliveries,
              inflight |-> FullDeliveries])

SpecFull == InitFull /\ [][NextQuorum]_vars

(***************************************************************************)
(* What the claims speak of.                                               *)
(***************************************************************************)
Committed(r) == SeqToSet(committed[r])

Emitted(r, type) == {e \in BagToSet(events[r]) : e.type = type}

\* a QC was formed on block b by some leader
Certified(b) ==
    \E r \in Replicas : \E e \in Emitted(r, "QC_FORMED") : e.block_id = b

Children(b) == {c \in 1 .. Len(chain) : chain[c].parent_id = b}

\* the step handles message m
Handles(m) == m \in net /\ m \notin net'

(***************************************************************************)
(* C1: no two different blocks of the same height are committed, by one    *)
(* replica or by two.                                                      *)
(***************************************************************************)
C1_CommitSafety ==
    \A a \in Replicas : \A b \in Replicas :
        \A x \in Committed(a) : \A y \in Committed(b) :
            chain[x].height = chain[y].height => x = y

(***************************************************************************)
(* C5: a committed block has a certified child that has a certified child. *)
(***************************************************************************)
C5_ThreeChain ==
    \A r \in Replicas : \A g \in Committed(r) :
        \E c \in Children(g) :
            /\ Certified(c)
            /\ \E d \in Children(c) : Certified(d)

(***************************************************************************)
(* C6: the committed set of a replica is closed under ancestors.           *)
(***************************************************************************)
C6_AncestorClosed ==
    \A r \in Replicas : \A g \in Committed(r) :
        chain[g].parent_id # 0 => chain[g].parent_id \in Committed(r)

(***************************************************************************)
(* C2: a replica sends at most one VOTE per view: it emits at most one     *)
(* VOTE_SENT event (one per vote signed and sent) for every view.          *)
(***************************************************************************)
C2_OneVotePerView ==
    \A r \in Replicas :
        \A e1 \in Emitted(r, "VOTE_SENT") :
            /\ CopiesIn(e1, events[r]) = 1
            /\ \A e2 \in Emitted(r, "VOTE_SENT") : e1.view = e2.view => e1 = e2

\* a replica has voted in a view and has received a second, different
\* proposal of that view
C2_Witness ==
    \E r \in Replicas :
        \E b1 \in SeqToSet(blocks[r]) : \E b2 \in SeqToSet(blocks[r]) :
            /\ b1 # b2
            /\ chain[b1].view = chain[b2].view
            /\ chain[b1].proposer # r
            /\ chain[b2].proposer # r
            /\ \E e \in Emitted(r, "VOTE_SENT") : e.view = chain[b1].view

(***************************************************************************)
(* C3: a replica whose locked_qc is set votes for a proposed block only if *)
(* the locked block is the block or an ancestor of it through the parent   *)
(* links of the replica's store; otherwise the proposal gets no vote and   *)
(* voted_in_view stays as it is.                                           *)
(***************************************************************************)
\* b and its ancestors, as far as the parent links stay inside `known`
RECURSIVE ChainOf(_, _)
ChainOf(known, b) ==
    {b} \cup (IF chain[b].parent_id # 0 /\ chain[b].parent_id \in known
              THEN ChainOf(known, chain[b].parent_id) ELSE {})

C3_LockSafety ==
    [][\A m \in net :
          (/\ m.type = "PROPOSE"
           /\ Handles(m)
           /\ locked_qc[m.dst] # NoQC
           /\ locked_qc[m.dst].block_id \notin
                  ChainOf(SeqToSet(blocks'[m.dst]), m.bid))
          => /\ voted_in_view'[m.dst] = voted_in_view[m.dst]
             /\ events'[m.dst] = events[m.dst]
             /\ net' \subseteq net]_vars

\* a locked replica stores a block of another proposer that does not extend
\* the lock, in a view it has not voted in: the proposal was refused
C3_Witness ==
    \E r \in Replicas :
        /\ locked_qc[r] # NoQC
        /\ \E b \in SeqToSet(blocks[r]) :
               /\ chain[b].proposer # r
               /\ chain[b].view \notin DOMAIN voted_in_view[r]
               /\ locked_qc[r].block_id \notin ChainOf(SeqToSet(blocks[r]), b)

(***************************************************************************)
(* C10: current_view of a replica never decreases.                         *)
(***************************************************************************)
C10_MonotoneViews ==
    [][\A r \in Replicas : current_view'[r] >= current_view[r]]_vars

\* a replica that was moved to a view by NEWVIEW and then further by
\* forming a QC
C10_Witness ==
    \E r \in Replicas :
        /\ r # leader_func(0)
        /\ Emitted(r, "QC_FORMED") # {}
        /\ current_view[r] >= 2

(***************************************************************************)
(* C4: a leader forms at most one QC per block id.                         *)
(***************************************************************************)
QCsFormed(r, b) ==
    LET es == {e \in Emitted(r, "QC_FORMED") : e.block_id = b}
    IN  IF es = {} THEN 0
        ELSE IF \E e \in es : CopiesIn(e, events[r]) > 1 THEN 2
        ELSE Cardinality(es)

C4_OneQCPerBlock ==
    \A r \in Replicas : \A b \in 1 .. Len(chain) : QCsFormed(r, b) <= 1

(***************************************************************************)
(* C7: on_qc changes high_qc or committed only for a QC with at least      *)
(* qc_threshold valid signatures of distinct registered signers.           *)
(***************************************************************************)
DistinctValidSigners(qc) ==
    LET k == IF Len(qc.signer_ids) < Len(qc.signatures)
             THEN Len(qc.signer_ids) ELSE Len(qc.signatures)
    IN  {qc.signer_ids[i] : i \in {j \in 1 .. k :
            /\ qc.signer_ids[j] \in Replicas
            /\ qc.signatures[j] = [by |-> qc.signer_ids[j],
                                   block_id |-> qc.block_id, view |-> qc.view]}}

C7_QCAcceptance ==
    [][\A m \in net :
          (/\ m.type = "QC"
           /\ Handles(m)
           /\ Cardinality(DistinctValidSigners(m.qc)) < cfg.qc_threshold)
          => high_qc' = high_qc /\ committed' = committed]_vars

(***************************************************************************)
(* C8: every signature of every QC held in a high_qc verifies under the    *)
(* registered key of its signer.                                           *)
(***************************************************************************)
AllSignaturesVerify(qc) ==
    /\ Len(qc.signer_ids) = Len(qc.signatures)
    /\ \A i \in 1 .. Len(qc.signer_ids) :
           /\ qc.signer_ids[i] \in Replicas
           /\ qc.signatures[i] = [by |-> qc.signer_ids[i],
                                  block_id |-> qc.block_id, view |-> qc.view]

C8_HighQCVerifies ==
    \A r \in Replicas : high_qc[r] # NoQC => AllSignaturesVerify(high_qc[r])

(***************************************************************************)
(* C9: a dropped VOTE of bad signature, and a dropped QC of too few valid  *)
(* signatures, each make the replica emit ERROR and change no state.       *)
(***************************************************************************)
Errors(bag) == {e \in BagToSet(bag) : e.type = "ERROR"}

EmitsError(r) ==
    \E e \in Errors(events'[r]) : CopiesIn(e, events'[r]) > CopiesIn(e, events[r])

ReplicaStateUnchanged ==
    UNCHANGED <<votes_collected, high_qc, locked_qc, current_view, committed>>

BadVote(m) ==
    /\ m.type = "VOTE"
    /\ leader_func(m.view) = m.dst
    /\ m.voter \in Replicas
    /\ m.sig # [by |-> m.voter, block_id |-> m.bid, view |-> m.view]

BadQC(m) ==
    /\ m.type = "QC"
    /\ ValidCount(m.qc) < cfg.qc_threshold

C9_SignatureFailures ==
    [][\A m \in net :
          (Handles(m) /\ (BadVote(m) \/ BadQC(m)))
          => EmitsError(m.dst) /\ ReplicaStateUnchanged]_vars

(***************************************************************************)
(* C11: a committed block id is never removed from a replica's committed   *)
(* list, the list never holds an id twice, and the replica emits at most   *)
(* one COMMIT event for a block id, however many QCs it receives.          *)
(***************************************************************************)
IsPrefix(s, t) == Len(s) <= Len(t) /\ \A i \in 1 .. Len(s) : s[i] = t[i]

NoRepeatedCommit(r) ==
    /\ \A i \in 1 .. Len(committed[r]) : \A j \in 1 .. Len(committed[r]) :
           committed[r][i] = committed[r][j] => i = j
    /\ \A e1 \in Emitted(r, "COMMIT") :
           /\ CopiesIn(e1, events[r]) = 1
           /\ \A e2 \in Emitted(r, "COMMIT") :
                  e1.block_id = e2.block_id => e1 = e2

C11_CommitMonotone ==
    [][\A r \in Replicas :
          /\ IsPrefix(committed[r], committed'[r])
          /\ NoRepeatedCommit(r)']_vars

\* the QCs a leader has broadcast
FormedQCs ==
    {[block_id |-> e.block_id, view |-> e.view, count |-> e.count] :
        e \in UNION {Emitted(l, "QC_FORMED") : l \in Replicas}}

\* replica r has handled its delivery of a QC with these fields
HandledQC(r, q) ==
    ~\E m \in net : /\ m.type = "QC" /\ m.dst = r
                    /\ m.qc.block_id = q.block_id
                    /\ Len(m.qc.signer_ids) = q.count

\* with no drops: a replica that proposed g, its child and its grandchild
\* itself has committed g and has handled two QCs on the grandchild
C11_Witness ==
    \E r \in Replicas : \E g \in Committed(r) :
        \E c \in Children(g) : \E d \in Children(c) :
            /\ chain[g].proposer = r /\ chain[c].proposer = r
            /\ chain[d].proposer = r
            /\ \E q1 \in FormedQCs : \E q2 \in FormedQCs :
                   /\ q1 # q2
                   /\ q1.block_id = d /\ q2.block_id = d
                   /\ HandledQC(r, q1) /\ HandledQC(r, q2)

(***************************************************************************)
(* C13 as stated: a committed block has its parent and its grandparent in  *)
(* the replica's block store.                                              *)
(***************************************************************************)
Stored(r) == SeqToSet(blocks[r])

C13_AncestorsStored ==
    \A r \in Replicas : \A g \in Committed(r) :
        /\ chain[g].parent_id \in Stored(r)
        /\ chain[chain[g].parent_id].parent_id \in Stored(r)

(***************************************************************************)
(* C13 amended: a committed block is in the replica's block store together *)
(* with a child of it and a child of that child.                           *)
(***************************************************************************)
C13_DescendantsStored ==
    \A r \in Replicas : \A g \in Committed(r) :
        /\ g \in Stored(r)
        /\ \E c \in Children(g) \cap Stored(r) :
               Children(c) \cap Stored(r) # {}

\* a replica has committed a parentless block that another replica proposed
C13_Witness ==
    \E r \in Replicas : \E g \in Committed(r) :
        chain[g].proposer # r /\ chain[g].parent_id = 0

(***************************************************************************)
(* C14: with qc_threshold > n no leader forms a QC (no QC_FORMED event, no *)
(* QC message) and every committed list stays empty.                       *)
(***************************************************************************)
C14_NoQCOverThreshold ==
    cfg.given > cfg.n =>
        /\ \A r \in Replicas : Emitted(r, "QC_FORMED") = {}
        /\ \A m \in net : m.type # "QC"
        /\ \A r \in Replicas : committed[r] = <<>>

\* a leader holds the votes of all n replicas for one block
C14_Witness ==
    /\ cfg.given > cfg.n
    /\ \E r \in Replicas : \E b \in DOMAIN votes_collected[r] :
           Len(votes_collected[r][b]) = cfg.n

Proposes(r) ==
    /\ Len(chain') > Len(chain)
    /\ chain'[Len(chain) + 1].proposer = r

C16_ByzantineEquivocates ==
    [][\A r \in cfg.byzantine :
          Proposes(r) =>
              /\ Len(chain') = Len(chain) + 2
              /\ chain'[Len(chain) + 1].view = current_view[r]
              /\ chain'[Len(chain) + 2].view = current_view[r]
              /\ \A b \in {Len(chain) + 1, Len(chain) + 2} :
                     \E m \in net' \ net : m.type = "PROPOSE" /\ m.bid = b]_vars

(***************************************************************************)
(* C20: a learner that processes a QC appends qc.block_id to committed     *)
(* exactly when the id is not recorded yet and the signer count reaches    *)
(* q_fast or q_commit; committed never holds an id twice; a recorded id    *)
(* has exactly one learner event, LEARNER_FAST or LEARNER_SAFE; a message  *)
(* of another type changes nothing.                                        *)
(***************************************************************************)
LearnerEvents(l, b) ==
    {e \in BagToSet(learner[l].events) : e.block_id = b}

OneEventPerRecord(l) ==
    /\ \A i \in 1 .. Len(learner[l].committed) :
           \A j \in 1 .. Len(learner[l].committed) :
               learner[l].committed[i] = learner[l].committed[j] => i = j
    /\ \A b \in 1 .. Len(chain) :
           IF b \in SeqToSet(learner[l].committed)
           THEN /\ Cardinality(LearnerEvents(l, b)) = 1
                /\ \A e \in LearnerEvents(l, b) :
                       /\ CopiesIn(e, learner[l].events) = 1
                       /\ e.type \in {"LEARNER_FAST", "LEARNER_SAFE"}
           ELSE LearnerEvents(l, b) = {}

Qualifies(l, m) ==
    /\ m.qc.block_id \notin SeqToSet(learner[l].committed)
    /\ \/ Len(m.qc.signer_ids) >= LearnerCfg(l).q_fast
       \/ Len(m.qc.signer_ids) >= LearnerCfg(l).q_commit

C20_LearnerRule ==
    [][\A m \in net :
          (m.dst \in Learners /\ Handles(m)) =>
              /\ IF m.type = "QC" /\ Qualifies(m.dst, m)
                 THEN learner'[m.dst].committed =
                          Append(learner[m.dst].committed, m.qc.block_id)
                 ELSE learner'[m.dst] = learner[m.dst]
              /\ OneEventPerRecord(m.dst)']_vars

\* each learner has recorded a block, one by the fast rule and one by the
\* commit rule, and has handled every QC it was sent, two of them at least
C20_Witness ==
    /\ Learners # {}
    /\ \A l \in Learners :
           /\ learner[l].committed # <<>>
           /\ ~\E m \in net : m.dst = l
    /\ \E l \in Learners : \E e \in BagToSet(learner[l].events) :
           e.type = "LEARNER_FAST"
    /\ \E l \in Learners : \E e \in BagToSet(learner[l].events) :
           e.type = "LEARNER_SAFE"
    /\ Cardinality(FormedQCs) >= 2

(***************************************************************************)
(* C19: with drop_rate = 0 a broadcast invokes the delivery sink of every  *)
(* endpoint registered when the call starts, the sender's too, exactly     *)
(* once; with any drop_rate no sink is invoked twice for one broadcast;    *)
(* a send to an unregistered endpoint invokes no sink.                     *)
(***************************************************************************)
SinkCalls(k, d) == CopiesIn([call |-> k, dst |-> d], wire.sunk)

\* no send task of call k is left
CallOver(k) == ~\E t \in wire.tasks : t.call = k

C19_FanOut ==
    \A k \in 1 .. Len(wire.calls) :
        /\ \A d \in WireIds : SinkCalls(k, d) <= 1
        /\ \A d \in WireIds \ wire.calls[k].to : SinkCalls(k, d) = 0
        /\ (~cfg.lossy /\ wire.calls[k].kind = "broadcast" /\ CallOver(k)) =>
               \A d \in wire.calls[k].to : SinkCalls(k, d) = 1

(***************************************************************************)
(* C17: once stop_simulation has completed, no replica and no learner of   *)
(* the stopped simulation changes its state, sends a message or emits an   *)
(* event.                                                                  *)
(***************************************************************************)
C17_StopCancelsEverything ==
    [][~orch.sim_running =>
          /\ UNCHANGED <<chain, blocks, high_qc, locked_qc, votes_collected,
                         voted_in_view, committed, current_view,
                         newview_buffer, timer, events, learner>>
          /\ net' \subseteq net]_vars

(***************************************************************************)
(* C18: once the duration timer has elapsed, the simulation is stopped     *)
(* (sim_running false, sim_tasks empty) and every connected event client   *)
(* has received STATUS stopped and then STATUS finished.                   *)
(***************************************************************************)
EndsWith(seq, a, b) ==
    Len(seq) >= 2 /\ seq[Len(seq) - 1] = a /\ seq[Len(seq)] = b

C18_DurationExpiry ==
    orch.expired =>
        /\ ~orch.sim_running
        /\ orch.sim_tasks = {}
        /\ \A w \in SeqToSet(Clients) :
               EndsWith(orch.inbox[w], "stopped", "finished")

(***************************************************************************)
(* Scenario 1 in small: honest replicas, qc_threshold = 2f + 1, no drops,  *)
(* a "fast" learner whose q_fast every QC reaches and whose q_commit only  *)
(* the larger QCs reach, and a "safe" learner whose q_fast no QC reaches   *)
(* and whose q_commit is the qc_threshold.  The learners' loops run for as *)
(* long as they have messages.                                             *)
(***************************************************************************)
Scenario1Learners ==
    <<[name |-> "fast", q_fast |-> 2 * F + 1, q_commit |-> 2 * F + 2],
      [name |-> "safe", q_fast |-> N + 1, q_commit |-> 2 * F + 1]>>

FastLearner == N

SafeLearner == N + 1

InitAgree ==
    InitWith([Config(N, F, None, FALSE) EXCEPT !.learners = Scenario1Learners],
             [blocks |-> AgreeBlocks, timeouts |-> 0, inject |-> 0,
              deliveries |-> AgreeDeliveries,
              inflight |-> AgreeDeliveries])

\* the run loop of learner l takes its next message
LearnerTask(l) ==
    \E m \in net :
        /\ m.dst = l
        /\ Alive(Task("learner", l))
        /\ LearnerRun(l, m)

\* a learner whose inbox is not empty gets to run
LearnerFairness == \A l \in {FastLearner, SafeLearner} : WF_vars(LearnerTask(l))

SpecAgree == InitAgree /\ [][NextLearner]_vars /\ LearnerFairness

(***************************************************************************)
(* C21: in scenario 1 every block id recorded by one learner is eventually *)
(* recorded by the other; once every broadcast QC has been delivered and   *)
(* processed, the committed lists of the two learners hold the same ids.   *)
(***************************************************************************)
Recorded(l) == SeqToSet(learner[l].committed)

\* no learner has a QC left to process
QCsProcessed == ~\E m \in net : m.dst \in Learners /\ m.type = "QC"

DefaultConfig ==
    [replicas |-> N, f |-> F, qc_threshold |-> None, drop_rate |-> 0,
     min_delay |-> 1, max_delay |-> 5, propose_interval |-> 15,
     duration |-> 1000, learners |-> <<LearnerList[1]>>]

NumericFields ==
    {"f", "qc_threshold", "drop_rate", "min_delay", "max_delay",
     "propose_interval", "duration"}

\* a negative value of a field (for qc_threshold one that is not None)
Negative == 0 - 2

\* the configurations a client sends: the default one, one with drops, one
\* with no replica, and one for each numeric field with that field negative
StartConfigs ==
    {DefaultConfig, [DefaultConfig EXCEPT !.drop_rate = 10],
     [DefaultConfig EXCEPT !.replicas = 0]}
        \cup {[DefaultConfig EXCEPT ![fld] = Negative] : fld \in NumericFields}

\* what start_simulation makes of the configuration it is given
Parsed(raw) ==
    [n |-> raw.replicas, f |-> raw.f, given |-> raw.qc_threshold,
     qc_threshold |-> QcThreshold(raw.qc_threshold, raw.f),
     lossy |-> raw.drop_rate > 0, byzantine |-> {},
     learners |-> raw.learners, raw |-> raw]

\* the statuses start_simulation broadcasts
StartStatuses(raw) ==
    <<"starting">>
        \o (IF raw.replicas < 3 * raw.f + 1 THEN <<"warn">> ELSE <<>>)
        \o <<"running">>

\* the process before any START: no network, no replica, no learner
NoConfig == Config(0, 0, None, FALSE)

InitIdle ==
    /\ cfg = NoConfig
    /\ budget = [blocks |-> StartBlocks, timeouts |-> StartTimeouts,
                 inject |-> 0, deliveries |-> StartDeliveries,
                 inflight |-> StartDeliveries, starts |-> MaxStarts]
    /\ delivered = 0
    /\ chain = <<>>
    /\ net = {}
    /\ blocks = <<>>
    /\ high_qc = <<>>
    /\ locked_qc = <<>>
    /\ votes_collected = <<>>
    /\ voted_in_view = <<>>
    /\ committed = <<>>
    /\ current_view = <<>>
    /\ newview_buffer = <<>>
    /\ timer = <<>>
    /\ events = <<>>
    /\ learner = <<>>
    /\ orch = [sim_running |-> FALSE, sim_tasks |-> {}, cancelled |-> {},
               expired |-> FALSE, clients |-> Clients,
               inbox |-> [w \in SeqToSet(Clients) |-> <<>>]]
    /\ wire = [nodes |-> {}, calls |-> <<>>, tasks |-> {}, sunk |-> EmptyBag]

StartSimulation(raw) ==
    LET c == Parsed(raw)
        ids == 0 .. (c.n - 1)
        stopped == IF orch.sim_running THEN <<"stopped">> ELSE <<>>
    IN  /\ budget.starts > 0
        /\ cfg' = c
        /\ budget' = [budget EXCEPT !.starts = @ - 1]
        /\ delivered' = 0
        /\ chain' = <<>>
        /\ net' = {}
        /\ blocks' = [r \in ids |-> <<>>]
        /\ high_qc' = [r \in ids |-> NoQC]
        /\ locked_qc' = [r \in ids |-> NoQC]
        /\ votes_collected' = [r \in ids |-> EmptyDict]
        /\ voted_in_view' = [r \in ids |-> EmptyDict]
        /\ committed' = [r \in ids |-> <<>>]
        /\ current_view' = [r \in ids |-> 0]
        /\ newview_buffer' = [r \in ids |-> EmptyDict]
        /\ timer' = [r \in ids |-> 0]
        /\ events' = [r \in ids |-> EmptyBag]
        /\ learner' = [l \in LearnersOf(c) |->
                          [committed |-> <<>>, events |-> EmptyBag]]
        /\ orch' = [sim_running |-> TRUE,
                    sim_tasks |-> StartedTasks(c),
                    cancelled |-> {},
                    expired |-> FALSE,
                    clients |-> orch.clients,
                    inbox |-> [w \in DOMAIN orch.inbox |->
                                  IF w \in SeqToSet(orch.clients)
                                  THEN orch.inbox[w] \o stopped
                                           \o StartStatuses(raw)
                                  ELSE orch.inbox[w]]]
        /\ wire' = [nodes |-> ids \cup LearnersOf(c), calls |-> <<>>,
                    tasks |-> {}, sunk |-> EmptyBag]

Start == \E raw \in StartConfigs : StartSimulation(raw)

NextStart ==
    \/ Start
    \/ ProposeTick
    \/ ViewTimeout
    \/ HandlePropose
    \/ HandleVote
    \/ HandleQC
    \/ HandleNewView
    \/ LearnerStep
    \/ StopSimulation
    \/ DurationExpires

SpecStart == InitIdle /\ [][NextStart]_vars

(***************************************************************************)
(* C22: start_simulation rejects a configuration whose replicas field is   *)
(* zero or one of whose numeric fields is negative: it starts no replica,  *)
(* no learner and no duration timer for it.                                *)
(***************************************************************************)
Invalid(raw) ==
    \/ raw.replicas <= 0
    \/ \E fld \in NumericFields :
           raw[fld] < 0 /\ ~(fld = "qc_threshold" /\ raw[fld] = None)

\* the step is a START with configuration raw
Starts(raw) == budget'.starts < budget.starts /\ cfg' = Parsed(raw)

NothingStarted ==
    /\ ~orch.sim_running
    /\ orch.sim_tasks = {}
    /\ Endpoints = {}

C22_ConfigValidation ==
    [][\A raw \in StartConfigs :
          (Starts(raw) /\ Invalid(raw)) => NothingStarted']_vars


(***************************************************************************)
(* C23: every block a replica proposes while its locked_qc is set has the  *)
(* locked block as its parent or as a further ancestor in the proposer's   *)
(* store; a block rebuilt because the tip does not extend the lock has the *)
(* locked block as parent and is never a parentless block.                 *)
(***************************************************************************)
C23_LeaderLockSafety ==
    [][\A r \in Replicas :
          (Proposes(r) /\ locked_qc[r] # NoQC) =>
              LET block == chain'[Len(chain) + 1]
              IN  /\ block.parent_id # 0
                  /\ locked_qc[r].block_id \in
                         ChainOf(SeqToSet(blocks'[r]), block.parent_id)
                  /\ ~Walk(SeqToSet(blocks[r]), Len(chain) + 1,
                           make_block(r, _tip_block(r), current_view[r]),
                           locked_qc[r].block_id, 0)
                         => block.parent_id = locked_qc[r].block_id]_vars

\* position of block id in the store of r
StoredAt(r, id) == CHOOSE k \in 1 .. Len(blocks[r]) : blocks[r][k] = id

\* a locked replica has proposed a block on its locked block although it
\* stored a higher block before: the proposal was rebuilt on the lock
C23_Witness ==
    \E r \in Replicas : \E b \in SeqToSet(blocks[r]) :
        /\ chain[b].proposer = r
        /\ locked_qc[r] # NoQC
        /\ chain[b].parent_id = locked_qc[r].block_id
        /\ \E x \in SeqToSet(blocks[r]) :
               /\ StoredAt(r, x) < StoredAt(r, b)
               /\ chain[x].height > chain[chain[b].parent_id].height


(***************************************************************************)
(* _timeout in its two steps.  Between the test of current_view and the    *)
(* emit of TIMEOUT the timer task awaits the broadcast of NEWVIEW; while   *)
(* it does, the replica's other tasks run, and a _schedule_view_timeout    *)
(* of theirs cancels the timer task with the sends that have not           *)
(* delivered yet.  timer[r] is the view of a sleeping timer, or            *)
(* Broadcasting(v) for a timer of view v that awaits its broadcast.        *)
(***************************************************************************)
Broadcasting(v) == 0 - (v + 2)

BroadcastView(t) == 0 - (t + 2)

\* the sleep of _timeout is over
TimerWake(r) ==
    /\ timer[r] >= 0
    /\ budget.timeouts > 0
    /\ budget' = [budget EXCEPT !.timeouts = @ - 1]
    /\ IF current_view[r] = timer[r]
       THEN /\ NetStep({}, Broadcast(Msg("NEWVIEW", r, timer[r], 0, None,
                                         NoSig, high_qc[r])))
            /\ timer' = [timer EXCEPT ![r] = Broadcasting(timer[r])]
       ELSE /\ timer' = [timer EXCEPT ![r] = NoTimer]
            /\ UNCHANGED <<net, delivered>>
    /\ UNCHANGED <<cfg, learner, orch, wire, chain, blocks, high_qc, locked_qc,
                   votes_collected, voted_in_view, committed, current_view,
                   newview_buffer, events>>

\* the broadcast of _timeout returns
TimerEmit(r) ==
    /\ timer[r] < NoTimer
    /\ events' = Emit(r, Event("TIMEOUT", BroadcastView(timer[r]), 0, 0))
    /\ timer' = [timer EXCEPT ![r] = NoTimer]
    /\ UNCHANGED <<cfg, learner, orch, wire, budget, delivered, chain, net,
                   blocks, high_qc, locked_qc, votes_collected, voted_in_view,
                   committed, current_view, newview_buffer>>

ViewTimerWakes == \E r \in Replicas : Alive(Task("timeout", r)) /\ TimerWake(r)

ViewTimerEmits == \E r \in Replicas : Alive(Task("timeout", r)) /\ TimerEmit(r)

InitTimer ==
    InitWith(Config(N, F, None, TRUE),
             [blocks |-> TimerBlocks, timeouts |-> TimerTimeouts, inject |-> 0,
              deliveries |-> TimerDeliveries,
              inflight |-> TimerDeliveries])

NextTimer ==
    \/ ProposeTick
    \/ ViewTimerWakes
    \/ ViewTimerEmits
    \/ HandlePropose
    \/ HandleVote
    \/ HandleQC
    \/ HandleNewView

SpecTimer == InitTimer /\ [][NextTimer]_vars

(***************************************************************************)
(* C24: a replica has at most one pending view timer; NEWVIEW is broadcast *)
(* and TIMEOUT emitted for view v only by the pending timer of view v and  *)
(* only while current_view is v, with the replica's high_qc in the         *)
(* NEWVIEW; a timer superseded by a reschedule does neither; a replica     *)
(* emits at most one TIMEOUT event for a view.                             *)
(***************************************************************************)
Timeouts(bag) == {e \in BagToSet(bag) : e.type = "TIMEOUT"}

C24_TimerDiscipline ==
    [][\A r \in Replicas :
          /\ \A m \in net' \ net :
                 (m.type = "NEWVIEW" /\ m.from = r) =>
                     /\ timer[r] = m.view
                     /\ current_view[r] = m.view
                     /\ m.qc = high_qc[r]
          /\ \A e \in Timeouts(events'[r]) :
                 /\ CopiesIn(e, events'[r]) = 1
                 /\ CopiesIn(e, events[r]) = 0 =>
                        /\ timer[r] = Broadcasting(e.view)
                        /\ current_view[r] = e.view
                        /\ timer'[r] = NoTimer]_vars

\* a replica whose timer of view 0 was superseded while it broadcast (a
\* NEWVIEW of it is still to be handled, no TIMEOUT of view 0 was emitted)
\* has emitted TIMEOUT for a later view
C24_Witness ==
    \E r \in Replicas :
        /\ \E m \in net : m.type = "NEWVIEW" /\ m.from = r /\ m.view = 0
        /\ \A e \in Timeouts(events[r]) : e.view > 0
        /\ Timeouts(events[r]) # {}


(***************************************************************************)
(* C25: a replica that handles NEWVIEW of view v and is not leader(v + 1)  *)
(* changes none of current_view, high_qc, locked_qc and committed; the     *)
(* leader of v + 1 sets high_qc to a QC of maximal view among those        *)
(* buffered for v, sets locked_qc to that QC only if its block is in the   *)
(* local store, and sets current_view to v + 1 exactly when current_view   *)
(* is at most v.                                                           *)
(***************************************************************************)
BufferedFor(r, v) == Get(newview_buffer[r], v, <<>>)

NewViewFrame(r, v) ==
    LET buf == BufferedFor(r, v)'
        best == high_qc'[r]
    IN  /\ committed'[r] = committed[r]
        /\ IF leader_func(v + 1) # r
           THEN /\ current_view'[r] = current_view[r]
                /\ high_qc'[r] = high_qc[r]
                /\ locked_qc'[r] = locked_qc[r]
           ELSE /\ IF buf = <<>>
                   THEN high_qc'[r] = high_qc[r] /\ locked_qc'[r] = locked_qc[r]
                   ELSE /\ best \in SeqToSet(buf)
                        /\ \A q \in SeqToSet(buf) : q.view <= best.view
                        /\ locked_qc'[r] = IF best.block_id \in Stored(r)
                                           THEN best ELSE locked_qc[r]
                /\ current_view'[r] = IF current_view[r] <= v THEN v + 1
                                      ELSE current_view[r]

C25_NewViewFrame ==
    [][\A m \in net :
          (m.type = "NEWVIEW" /\ Handles(m)) => NewViewFrame(m.dst, m.view)]_vars

\* the leader of view v + 1 has buffered for v a QC and then one of a lower
\* view, on a block it does not store; it keeps the first as high_qc and
\* has moved to view v + 1
C25_Witness ==
    \E r \in Replicas : \E v \in DOMAIN newview_buffer[r] :
        LET buf == newview_buffer[r][v]
        IN  /\ leader_func(v + 1) = r
            /\ Len(buf) >= 2
            /\ buf[2].view < buf[1].view
            /\ high_qc[r] = buf[1]
            /\ high_qc[r].block_id \notin Stored(r)
            /\ locked_qc[r] # high_qc[r]
            /\ current_view[r] = v + 1


(***************************************************************************)
(* C26: over QC formations, QC deliveries and NEWVIEW deliveries the view  *)
(* of a replica's high_qc never decreases.                                 *)
(***************************************************************************)
C26_HighQCMonotone ==
    [][\A r \in Replicas : high_qc'[r].view >= high_qc[r].view]_vars


C28_LockedBlockStored ==
    \A r \in Replicas :
        locked_qc[r] # NoQC => locked_qc[r].block_id \in Stored(r)

\* a leader took from a NEWVIEW a high_qc on a block it does not store and
\* took no lock, while another replica holds a lock
C28_Witness ==
    /\ \E r \in Replicas : \E v \in DOMAIN newview_buffer[r] :
           /\ leader_func(v + 1) = r
           /\ high_qc[r] \in SeqToSet(newview_buffer[r][v])
           /\ high_qc[r].block_id \notin Stored(r)
           /\ locked_qc[r] = NoQC
    /\ \E r \in Replicas : locked_qc[r] # NoQC


(***************************************************************************)
(* C29: a learner emits LEARNER_SAFE for a block only on processing a QC   *)
(* on a block it has not recorded whose signer count is at least q_commit  *)
(* and below q_fast; a learner with q_fast <= q_commit never emits         *)
(* LEARNER_SAFE, and every block it records has a LEARNER_FAST event.      *)
(***************************************************************************)
SafeEvents(bag) == {e \in BagToSet(bag) : e.type = "LEARNER_SAFE"}

C29_SafeBelowFast ==
    [][\A l \in Learners :
          /\ \A e \in SafeEvents(learner'[l].events) :
                 CopiesIn(e, learner'[l].events) > CopiesIn(e, learner[l].events)
                 => /\ e.block_id \notin SeqToSet(learner[l].committed)
                    /\ e.sigs >= LearnerCfg(l).q_commit
                    /\ e.sigs < LearnerCfg(l).q_fast
                    /\ \E m \in net :
                           /\ Handles(m) /\ m.dst = l /\ m.type = "QC"
                           /\ m.qc.block_id = e.block_id
                           /\ Len(m.qc.signer_ids) = e.sigs
          /\ LearnerCfg(l).q_fast <= LearnerCfg(l).q_commit
             => /\ SafeEvents(learner'[l].events) = {}
                /\ \A b \in SeqToSet(learner'[l].committed) :
                       \E e \in BagToSet(learner'[l].events) :
                           e.type = "LEARNER_FAST" /\ e.block_id = b]_vars

\* a learner with q_fast <= q_commit has recorded a block on a QC that
\* reaches its q_commit, before it processed the smaller QC on the block,
\* and a learner with q_commit < q_fast has emitted LEARNER_SAFE
C29_Witness ==
    /\ \E l \in Learners :
           /\ LearnerCfg(l).q_fast <= LearnerCfg(l).q_commit
           /\ \E e \in BagToSet(learner[l].events) :
                  /\ e.type = "LEARNER_FAST"
                  /\ e.sigs >= LearnerCfg(l).q_commit
                  /\ \E m \in net : /\ m.dst = l /\ m.type = "QC"
                                    /\ m.qc.block_id = e.block_id
                                    /\ Len(m.qc.signer_ids) < e.sigs
    /\ \E l \in Learners : SafeEvents(learner[l].events) # {}


(***************************************************************************)
(* The standalone replica (src/node.py) that run_simulation.py runs over   *)
(* the SimulatedNetwork of src/network.py.  It has no lock, no record of   *)
(* the views it voted in and no view timer, and nothing sends NEWVIEW, so  *)
(* its current_view stays 0 and the NEWVIEW branch of on_message is never  *)
(* taken.  The model follows the replicas; the sends of on_propose are     *)
(* listed in wire.calls.  A replica of cfg.byzantine is one constructed    *)
(* with is_byzantine; no replica is constructed with is_abc.               *)
(***************************************************************************)
\* make_block(payload): a child of the first stored block of maximal height
node_make_block(r) ==
    [height |-> IF blocks[r] = <<>> THEN 0
                ELSE BlockOf(_tip_block(r)).height + 1,
     parent_id |-> _tip_block(r),
     proposer |-> r,
     view |-> current_view[r],
     justify_qc_id |-> NoQC]

\* make_block(payload + "_alt") once `block`, with id `id`, is stored: block
\* is then the one stored block of maximal height
node_make_block_alt(r, id, block) ==
    [height |-> block.height + 1,
     parent_id |-> id,
     proposer |-> r,
     view |-> current_view[r],
     justify_qc_id |-> NoQC]

\* one tick of propose_loop; a Byzantine leader makes a second block of the
\* same view and broadcasts both (the order in which a replica handles the
\* two is left open)
node_propose_loop(r) ==
    LET id == Len(chain) + 1
        block == [node_make_block(r) EXCEPT !.justify_qc_id = high_qc[r]]
        block2 == node_make_block_alt(r, id, block)
        propose(b) == Broadcast(Msg("PROPOSE", r, current_view[r], b, None,
                                    NoSig, NoQC))
    IN  /\ leader_func(current_view[r]) = r
        /\ IF r \in cfg.byzantine
           THEN /\ budget.blocks > 1
                /\ budget' = [budget EXCEPT !.blocks = @ - 2]
                /\ chain' = Append(Append(chain, block), block2)
                /\ blocks' = [blocks EXCEPT ![r] = Append(Append(@, id), id + 1)]
                /\ NetStep({}, propose(id) \cup propose(id + 1))
           ELSE /\ budget.blocks > 0
                /\ budget' = [budget EXCEPT !.blocks = @ - 1]
                /\ chain' = Append(chain, block)
                /\ blocks' = [blocks EXCEPT ![r] = Append(@, id)]
                /\ NetStep({}, propose(id))
        /\ UNCHANGED <<cfg, learner, orch, wire, high_qc, locked_qc,
                       votes_collected, voted_in_view, committed, current_view,
                       newview_buffer, timer, events>>

\* simple_sign(private_key, f"{block.id}:{block.view}")
simple_sign(signer, block_id, view) ==
    [by |-> signer, block_id |-> block_id, view |-> view]

\* on_propose: store the block and send a VOTE for it to the leader of its
\* view, in each of the three branches
node_on_propose(r, m) ==
    LET id == m.bid
        block == BlockOf(id)
        vote == Msg("VOTE", r, block.view, id, r,
                    simple_sign(r, id, block.view), NoQC)
        leader == leader_func(block.view)
    IN  /\ blocks' = [blocks EXCEPT ![r] = Insert(@, id)]
        /\ NetStep({m}, Send(leader, vote))
        /\ wire' = [wire EXCEPT !.calls =
                       Append(@, [kind |-> "send", by |-> "proc", src |-> r,
                                  to |-> {leader}, msg |-> vote])]
        /\ UNCHANGED <<cfg, learner, orch, budget, chain, high_qc, locked_qc,
                       votes_collected, voted_in_view, committed, current_view,
                       newview_buffer, timer, events>>

\* on_vote: the leader of the vote's view collects; 2f + 1 votes make a QC
node_on_vote(r, m) ==
    LET vote == [voter |-> m.voter, view |-> m.view, sig |-> m.sig]
        old == Get(votes_collected[r], m.bid, <<>>)
        lst == Append(old, vote)
        qc == FormQC(m.bid, lst, m.view)
    IN  /\ IF leader_func(m.view) # r
           THEN /\ NetStep({m}, {})
                /\ UNCHANGED <<votes_collected, high_qc>>
           ELSE IF m.voter \in {old[i].voter : i \in 1 .. Len(old)}
           THEN /\ NetStep({m}, {})
                /\ UNCHANGED <<votes_collected, high_qc>>
           ELSE /\ votes_collected' =
                       [votes_collected EXCEPT ![r] = Put(@, m.bid, lst)]
                /\ IF Len(lst) >= 2 * cfg.f + 1
                   THEN /\ NetStep({m}, Broadcast(Msg("QC", r, None, 0, None,
                                                      NoSig, qc)))
                        /\ high_qc' = [high_qc EXCEPT ![r] = qc]
                   ELSE /\ NetStep({m}, {})
                        /\ UNCHANGED high_qc
        /\ UNCHANGED <<cfg, learner, orch, wire, budget, chain, blocks,
                       locked_qc, voted_in_view, committed, current_view,
                       newview_buffer, timer, events>>

\* on_qc: take the QC as high_qc and commit the stored grandparent
node_on_qc(r, m) ==
    LET grandparent == Grandparent(r, m.qc)
    IN  /\ NetStep({m}, {})
        /\ high_qc' = [high_qc EXCEPT ![r] = m.qc]
        /\ IF grandparent # 0 /\ ~AlreadyCommitted(r, grandparent)
           THEN committed' = [committed EXCEPT ![r] = Append(@, grandparent)]
           ELSE UNCHANGED committed
        /\ UNCHANGED <<cfg, learner, orch, wire, budget, chain, blocks,
                       locked_qc, votes_collected, voted_in_view, current_view,
                       newview_buffer, timer, events>>

NodeInbox(type) == {m \in net : m.type = type /\ m.dst \in Replicas}

NodeProposeTick == \E r \in Replicas : node_propose_loop(r)

NodeHandlePropose == \E m \in NodeInbox("PROPOSE") : node_on_propose(m.dst, m)

NodeHandleVote == \E m \in NodeInbox("VOTE") : node_on_vote(m.dst, m)

NodeHandleQC == \E m \in NodeInbox("QC") : node_on_qc(m.dst, m)

\* run_simulation.py: drop_rate 0; the leader of view 0 honest or Byzantine
InitNode ==
    \E byz \in {{}, {0}, {1}} :
        InitWith([Config(N, F, None, FALSE) EXCEPT !.byzantine = byz],
                 [blocks |-> NodeBlocks, timeouts |-> 0, inject |-> 0,
                  deliveries |-> NodeDeliveries,
                  inflight |-> NodeDeliveries])

NextNode ==
    \/ NodeProposeTick
    \/ NodeHandlePropose
    \/ NodeHandleVote
    \/ NodeHandleQC

SpecNode == InitNode /\ [][NextNode]_vars

(***************************************************************************)
(* C30: an honest standalone replica votes once per view, for the first    *)
(* proposal it sees in the view: of the two proposals an equivocating      *)
(* leader broadcasts for one view it sends a VOTE for at most one.         *)
(***************************************************************************)
\* the calls of network.send by which replica r sent a VOTE of view v
VoteSends(r, v) ==
    {k \in 1 .. Len(wire.calls) :
        /\ wire.calls[k].src = r
        /\ wire.calls[k].msg.type = "VOTE"
        /\ wire.calls[k].msg.view = v}

C30_StandaloneOneVote ==
    \A r \in Replicas \ cfg.byzantine :
        \A k \in 1 .. Len(wire.calls) :
            Cardinality(VoteSends(r, wire.calls[k].msg.view)) <= 1


====
